---- MODULE Spec2Model ----
(***************************************************************************)
(* The dashboard's stream client (SSEClient), the page scripts that use it *)
(* and the pull loaders of the equity and performance pages, as one state  *)
(* machine.  One action per callback, handler or public method.            *)
(* The trade page, the render functions of the dashboard's cards (risk     *)
(* gauges, equity chart, pending orders, health checks) and the reducer of *)
(* the mobile client follow, each with a specification of its own.         *)
(***************************************************************************)
EXTENDS Integers, Sequences, FiniteSets, TLC

\* ------------------------------------------------------------------ bounds
\* Calls of connect() made by page scripts after the page has loaded.
MaxPageConnects == 3
\* Named events the transport fires plus initial requests that settle
\* during one run.
MaxEvents == 2
\* Clicks on the equity page's search button during one run.
MaxLoads == 2

\* ------------------------------------------------------- program constants
\* this.reconnectDelay = 1000 (constructor and onopen)
BaseReconnectDelay == 1000
\* this.maxReconnectDelay = 30000
maxReconnectDelay == 30000
\* const MAX_LOG_ENTRIES = 50
MAX_LOG_ENTRIES == 50

\* const eventTypes = ['status', 'portfolio', 'positions', 'risk', 'events']
eventTypes == <<"status", "portfolio", "positions", "risk", "events">>

\* The named events the backend's stream carries: the five the client
\* listens to and the three more the dashboard registers handlers for.
PushChannels ==
    {"status", "portfolio", "positions", "risk", "events",
     "pending_orders", "health_checks", "external_accounts"}

\* The sse.on(...) call sites of the dashboard page, in the order they run:
\* dashboard.js registers while the script is evaluated, the common script
\* registers its status-bar handler in its DOMContentLoaded listener, which
\* was added first and so runs before the listeners that call connect().
Registrations ==
    << [channel |-> "portfolio",         handler |-> "dash_portfolio"],
       [channel |-> "risk",              handler |-> "dash_risk"],
       [channel |-> "status",            handler |-> "dash_status"],
       [channel |-> "positions",         handler |-> "dash_positions"],
       [channel |-> "events",            handler |-> "dash_events"],
       [channel |-> "pending_orders",    handler |-> "dash_pending_orders"],
       [channel |-> "health_checks",     handler |-> "dash_health_checks"],
       [channel |-> "external_accounts", handler |-> "dash_external_accounts"],
       [channel |-> "status",            handler |-> "common_status"] >>

HandlerIds == {Registrations[i].handler : i \in 1..Len(Registrations)}

\* ------------------------------------------------------------ JSON payloads
\* e.data of an event / the body of a response: three well-formed texts
\* (the JSON literal null and two different objects) and one that does not
\* parse.
DataTexts == {"null", "{a}", "{b}", "{bad"}

Null == "NULL"

\* JSON.parse: throws on malformed text.
ParseOk(text) == text \in {"null", "{a}", "{b}"}

\* JSON.parse: the value of a well-formed text.
JSONParse(text) ==
    CASE text = "null" -> Null
      [] text = "{a}"  -> "A"
      [] text = "{b}"  -> "B"

\* JavaScript truthiness of a parsed payload (if (positions) ...).
Truthy(v) == v # Null

Min(a, b) == IF a < b THEN a ELSE b

RECURSIVE SeqToSet(_)
SeqToSet(s) == IF s = <<>> THEN {} ELSE {Head(s)} \cup SeqToSet(Tail(s))

\* -------------------------------------------------------------------- state
VARIABLES
    eventSource,     \* readyState of this.eventSource: none/connecting/open/closed
    connected,       \* this.connected
    reconnectDelay,  \* this.reconnectDelay
    sbStatus,        \* innerHTML of #sb-status: initial/connected/disconnected
    timers,          \* number of pending setTimeout(() => this.connect(), ...)
    unclosed,        \* EventSources created by connect() and not closed since
    lastDelay,       \* delay given to the last setTimeout since the last onopen (0: none)
    pageConnects,    \* connect() calls made by page scripts after load
    threw,           \* a page-script call raised an uncaught TypeError
    phase,           \* page life cycle: loading / ready
    regPc,           \* sse.on(...) call sites already run
    handlers,        \* this.handlers: channel -> handlers in registration order
    produced,        \* per channel, the e.data texts the transport has fired
    delivered,       \* per handler, the calls made to it: <<"push" or "pull", payload>>
    appliedTo,       \* per pulled channel, the payloads applied to it, push or pull
    lastInvoked,     \* handlers called by the most recent _dispatch, in call order
    view,            \* what the page shows per DOM slot
    lastPositions,   \* let lastPositions
    logEntries,      \* const logEntries
    pending,         \* per initial pull request: idle / inflight / done
    applied,         \* named events fired and initial requests settled so far
    eqPhase,         \* equity page: loading / awaiting / ready
    eqIssued,        \* loadEquityByRange calls made so far
    eqInflight,      \* equity-history requests in flight (0: the initial one)
    eqArrivals,      \* equity-history responses in arrival order: <<request, outcome>>
    lastSnapshots    \* let lastSnapshots (equity.js)

\* The trade page (loadTradeData).
VARIABLES
    currentFilter,   \* let currentFilter
    cachedEvents,    \* let cachedEvents
    tdLoading,       \* loadingEl.style.display: none / inline
    tdSummary,       \* which summary the page shows: none / settlement / events
    tdInflight,      \* loadTradeData calls that have not settled
    apiOutcomes      \* how the two api() calls of the last settled load ended

tradeVars == <<currentFilter, cachedEvents, tdLoading, tdSummary, tdInflight,
               apiOutcomes>>

\* The mobile client's TradingState and its reducer (trading-data-provider).
VARIABLES
    tConnected,      \* state.connected
    tConnecting,     \* state.connecting
    isDemo,          \* state.isDemo
    serverUrl,       \* state.serverUrl: default / custom
    lastError,       \* state.lastError: none / error
    tData,           \* the real-time data fields of the state
    episode          \* SET_CONNECTED history since the last user action:
                     \* none / up / down / upagain / user

tradingVars == <<tConnected, tConnecting, isDemo, serverUrl, lastError, tData, episode>>

\* What the dashboard's risk handler last rendered.
VARIABLES
    riskData,        \* the payload of the last risk event rendered (<<>>: none)
    riskGauges       \* style.width of the three gauges, in percent

riskVars == <<riskData, riskGauges>>

\* What renderEquityChart last drew.
VARIABLES
    chartSeries,     \* equities of the snapshots drawn (<<>>: the no-data notice)
    yRange           \* yaxis.range of the layout, in hundredths

axisVars == <<chartSeries, yRange>>

\* The pending-orders card.
VARIABLES
    poCard,          \* card.style.display: none / block
    poOrders,        \* the orders the list was last rendered from
    poItems          \* per order in the list: width of its bar and whether the
                     \* fallback notice is shown

orderVars == <<poCard, poOrders, poItems>>

\* The health-checks card.
VARIABLES
    hcCard,          \* card.style.display: none / block
    healthBadge,     \* the badge and the dot: level and the count in its text
    hcChecks,        \* the checks the last payload described
    hcFailedOnly,    \* whether that payload was the push one (failing checks only)
    hcPulled         \* a /api/health-checks result has been rendered

healthVars == <<hcCard, healthBadge, hcChecks, hcFailedOnly, hcPulled>>

\* The positions table of the dashboard.
VARIABLES
    posList,         \* let lastPositions, as the list of positions it holds
    positionSortKey, \* let positionSortKey
    positionSortDir, \* let positionSortDir
    posRows          \* the rows of #positions-body, top to bottom

sortVars == <<posList, positionSortKey, positionSortDir, posRows>>

\* The apply button of one recommendation of the review page.
VARIABLES
    applyButtons,  \* the .btn-apply elements rendered for the recommendation,
                   \* oldest first; the last one is the one in the document
    applyInflight, \* per button, its POST /api/evolution/apply requests in flight
    applyReload,   \* the reload of the page: "none", "pending" or "done"
    applyLast      \* what the last settled request left behind

applyVars == <<applyButtons, applyInflight, applyReload, applyLast>>

\* One date row of the equity table and its position details.
VARIABLES
    detailRows,    \* the position-detail-row elements that follow the date
                   \* row, nearest first
    detailBtn,     \* the expand button: "collapsed" or "expanded"
    detailReqs,    \* the position-detail requests in flight, each named by
                   \* the loading row it was started with
    detailStarted  \* position-detail requests started so far

detailVars == <<detailRows, detailBtn, detailReqs, detailStarted>>

\* State of the pages other than the dashboard and the equity page.
moreVars == <<tradeVars, tradingVars, riskVars, axisVars, orderVars,
              healthVars, sortVars, applyVars, detailVars>>

connVars == <<eventSource, connected, reconnectDelay, sbStatus, timers, lastDelay,
              unclosed>>
pageVars == <<pageConnects, threw, phase, regPc, handlers>>
histVars == <<produced, delivered, appliedTo, lastInvoked>>
aggVars  == <<view, lastPositions, logEntries>>
eqVars   == <<eqPhase, eqIssued, eqInflight, eqArrivals, lastSnapshots>>

vars == <<eventSource, connected, reconnectDelay, sbStatus, timers, lastDelay,
          pageConnects, threw, phase, regPc, handlers,
          produced, delivered, appliedTo, lastInvoked,
          view, lastPositions, logEntries, pending, applied,
          eqPhase, eqIssued, eqInflight, eqArrivals, lastSnapshots,
          currentFilter, cachedEvents, tdLoading, tdSummary, tdInflight,
          apiOutcomes,
          tConnected, tConnecting, isDemo, serverUrl, lastError, tData, episode,
          riskData, riskGauges,
          chartSeries, yRange,
          poCard, poOrders, poItems,
          hcCard, healthBadge, hcChecks, hcFailedOnly,
          hcPulled,
          posList, positionSortKey, positionSortDir, posRows,
          applyButtons, applyInflight, applyReload, applyLast,
          detailRows, detailBtn, detailReqs, detailStarted,
          unclosed>>

\* The stream client, the dashboard page and the equity page.
coreVars == <<connVars, pageVars, histVars, aggVars, pending, applied, eqVars>>

\* Everything but the trade page.
notTradeVars == <<coreVars, tradingVars, riskVars, axisVars, orderVars,
                  healthVars, sortVars, applyVars, detailVars>>

\* Everything but the risk card.
notRiskVars == <<coreVars, tradeVars, tradingVars, axisVars, orderVars,
                 healthVars, sortVars, applyVars, detailVars>>

\* Everything but the equity chart.
notAxisVars == <<coreVars, tradeVars, tradingVars, riskVars, orderVars,
                 healthVars, sortVars, applyVars, detailVars>>

\* Everything but the pending-orders card.
notOrderVars == <<coreVars, tradeVars, tradingVars, riskVars, axisVars,
                  healthVars, sortVars, applyVars, detailVars>>

\* Everything but the health-checks card.
notHealthVars == <<coreVars, tradeVars, tradingVars, riskVars, axisVars,
                   orderVars, sortVars, applyVars, detailVars>>

\* Everything but the positions table.
notSortVars == <<coreVars, tradeVars, tradingVars, riskVars, axisVars,
                 orderVars, healthVars, applyVars, detailVars>>

\* Everything but the apply button.
notApplyVars == <<coreVars, tradeVars, tradingVars, riskVars, axisVars,
                  orderVars, healthVars, sortVars, detailVars>>

\* Everything but the position details.
notDetailVars == <<coreVars, tradeVars, tradingVars, riskVars, axisVars,
                   orderVars, healthVars, sortVars, applyVars>>

ViewSlots ==
    {"portfolio", "risk", "status", "statusbar",
     "pending_orders", "health_checks", "external_accounts"}

\* The initial requests of the dashboard's DOMContentLoaded listener that
\* feed the push-carried channels.
PullResources == {"portfolio", "risk", "positions", "status"}

\* The trade page after its script has been evaluated: currentFilter = 'all',
\* cachedEvents = [], nothing loaded yet.
InitTrade ==
    /\ currentFilter = "all"
    /\ cachedEvents = "EMPTY"
    /\ tdLoading = "none"
    /\ tdSummary = "none"
    /\ tdInflight = 0
    /\ apiOutcomes = <<>>

\* The real-time data fields of TradingState.
DataFields ==
    {"portfolio", "status", "positions", "risk", "todayTrades", "events",
     "pendingOrders", "externalAccounts"}

\* The provider's initial state: not connected, and so on the demo fallback.
InitTrading ==
    /\ tConnected = FALSE
    /\ tConnecting = FALSE
    /\ isDemo = TRUE
    /\ serverUrl = "default"
    /\ lastError = "none"
    /\ tData = [f \in DataFields |-> Null]
    /\ episode = "none"

\* A percentage as an exact fraction num/den (den > 0).
Pct(num, den) == [num |-> num, den |-> den]

\* The risk card before the first risk event: gauges at their markup width.
InitRisk ==
    /\ riskData = <<>>
    /\ riskGauges = [loss |-> Pct(0, 1), trades |-> Pct(0, 1), positions |-> Pct(0, 1)]

\* The equity chart before anything is drawn.
InitAxis ==
    /\ chartSeries = <<>>
    /\ yRange = [yMin |-> 0, yMax |-> 0]

\* The pending-orders card before the first list is rendered.
InitOrders ==
    /\ poCard = "none"
    /\ poOrders = <<>>
    /\ poItems = <<>>

\* The health-checks card before the first payload: the badge carries
\* whatever the markup gives it.
InitHealth ==
    /\ hcCard = "none"
    /\ healthBadge = [level |-> "markup", count |-> 0]
    /\ hcChecks = <<>>
    /\ hcFailedOnly = FALSE
    /\ hcPulled = FALSE

\* let positionSortKey = 'unrealized_pnl_pct'; let positionSortDir = 'desc';
\* let lastPositions = []; the table body is empty.
InitSort ==
    /\ posList = <<>>
    /\ positionSortKey = "unrealized_pnl_pct"
    /\ positionSortDir = "desc"
    /\ posRows = <<>>

\* The button as renderLLMReview writes it.
FreshButton == [disabled |-> FALSE, label |-> "apply"]

\* The review has been rendered once and nothing has been applied.
InitApply ==
    /\ applyButtons = <<FreshButton>>
    /\ applyInflight = <<0>>
    /\ applyReload = "none"
    /\ applyLast = [btn |-> 0, resp |-> "none", console |-> FALSE,
                     shown |-> "none", button |-> FreshButton]

\* The table as rendered: the date row collapsed, no detail row.
InitDetail ==
    /\ detailRows = <<>>
    /\ detailBtn = "collapsed"
    /\ detailReqs = {}
    /\ detailStarted = 0

InitMore ==
    InitTrade /\ InitTrading /\ InitRisk /\ InitAxis /\ InitOrders
      /\ InitHealth /\ InitSort /\ InitApply /\ InitDetail

\* State after `const sse = new SSEClient()` and the page's markup.
Init ==
    /\ InitMore
    /\ eventSource = "none"
    /\ connected = FALSE
    /\ reconnectDelay = BaseReconnectDelay
    /\ sbStatus = "initial"
    /\ timers = 0
    /\ lastDelay = 0
    /\ unclosed = 0
    /\ pageConnects = 0
    /\ threw = FALSE
    /\ phase = "loading"
    /\ regPc = 0
    /\ handlers = [c \in PushChannels |-> <<>>]
    /\ produced = [c \in PushChannels |-> <<>>]
    /\ delivered = [h \in HandlerIds |-> <<>>]
    /\ appliedTo = [c \in PullResources |-> <<>>]
    /\ lastInvoked = <<>>
    /\ view = [s \in ViewSlots |-> "initial"]
    /\ lastPositions = "EMPTY"
    /\ logEntries = <<>>
    /\ pending = [r \in PullResources |-> "idle"]
    /\ applied = 0
    /\ eqPhase = "loading"
    /\ eqIssued = 0
    /\ eqInflight = {}
    /\ eqArrivals = <<>>
    /\ lastSnapshots = <<>>

\* ------------------------------------------------------- the stream client
\* The body of connect(): close the current EventSource if there is one and
\* replace it by a new one (readyState CONNECTING) with fresh onopen, onerror
\* and named-event listeners.  Nothing else is touched.
\* connect() that drops the old EventSource without closing it.
ConnectBodyKeepsOld ==
    /\ eventSource' = "connecting"
    /\ unclosed' = unclosed + 1
    /\ UNCHANGED <<moreVars, connected, reconnectDelay, sbStatus, lastDelay>>

ConnectBody ==
    /\ eventSource' = "connecting"
    /\ unclosed' = (IF eventSource \in {"connecting", "open"}
                    THEN unclosed - 1 ELSE unclosed) + 1
    /\ UNCHANGED <<moreVars, connected, reconnectDelay, sbStatus, lastDelay>>

\* _updateConnectionStatus(connected): the text of #sb-status.
StatusText(c) == IF c THEN "connected" ELSE "disconnected"

\* onopen that forgets to reset the delay.
OnOpenKeepsDelay ==
    /\ eventSource = "connecting"
    /\ eventSource' = "open"
    /\ connected' = TRUE
    /\ sbStatus' = StatusText(TRUE)
    /\ lastDelay' = 0
    /\ UNCHANGED <<moreVars, reconnectDelay, timers, unclosed, pageVars, histVars, aggVars,
                   pending, applied, eqVars>>

\* this.eventSource.onopen
OnOpen ==
    /\ eventSource = "connecting"
    /\ eventSource' = "open"
    /\ connected' = TRUE
    /\ reconnectDelay' = BaseReconnectDelay
    /\ sbStatus' = StatusText(TRUE)
    /\ lastDelay' = 0
    /\ UNCHANGED <<moreVars, timers, unclosed, pageVars, histVars, aggVars, pending, applied,
                   eqVars>>

\* onerror that stops retrying once the delay has reached the ceiling.
OnErrorGivesUp ==
    /\ eventSource \in {"connecting", "open"}
    /\ connected' = FALSE
    /\ sbStatus' = StatusText(FALSE)
    /\ eventSource' = "closed"
    /\ unclosed' = unclosed - 1
    /\ timers' = IF reconnectDelay = maxReconnectDelay THEN timers ELSE timers + 1
    /\ lastDelay' = reconnectDelay
    /\ reconnectDelay' = Min(reconnectDelay * 2, maxReconnectDelay)
    /\ UNCHANGED <<moreVars, pageVars, histVars, aggVars, pending, applied, eqVars>>

\* this.eventSource.onerror: the transport failed to open or was lost.
OnError ==
    /\ eventSource \in {"connecting", "open"}
    /\ connected' = FALSE
    /\ sbStatus' = StatusText(FALSE)
    /\ eventSource' = "closed"
    /\ unclosed' = unclosed - 1
    /\ timers' = timers + 1
    /\ lastDelay' = reconnectDelay
    /\ reconnectDelay' = Min(reconnectDelay * 2, maxReconnectDelay)
    /\ UNCHANGED <<moreVars, pageVars, histVars, aggVars, pending, applied, eqVars>>

\* A pending setTimeout(() => this.connect(), delay) fires.
TimerFire ==
    /\ timers > 0
    /\ timers' = timers - 1
    /\ ConnectBody
    /\ UNCHANGED <<moreVars, pageVars, histVars, aggVars, pending, applied, eqVars>>

\* on(eventType, handler): the page's next sse.on(...) call site runs.
On ==
    /\ regPc < Len(Registrations)
    /\ LET r == Registrations[regPc + 1]
       IN handlers' = [handlers EXCEPT ![r.channel] = Append(@, r.handler)]
    /\ regPc' = regPc + 1
    /\ UNCHANGED <<moreVars, connVars, pageConnects, threw, phase, histVars, aggVars, pending, applied, eqVars>>

\* sse.connect() called by a page script once the page is up: the second
\* DOMContentLoaded listener of dashboard.js, or any later caller.
PageConnect ==
    /\ phase = "ready"
    /\ pageConnects < MaxPageConnects
    /\ pageConnects' = pageConnects + 1
    /\ ConnectBody
    /\ UNCHANGED <<moreVars, timers, threw, phase, regPc, handlers, histVars, aggVars, pending, applied, eqVars>>

\* sse.disconnect() called by a page script: SSEClient defines no such
\* method, so the call raises a TypeError and changes nothing in the client.
Disconnect ==
    /\ phase = "ready"
    /\ ~threw
    /\ threw' = TRUE
    /\ UNCHANGED <<moreVars, connVars, pageConnects, phase, regPc, handlers, histVars,
                   aggVars, pending, applied, eqVars>>

\* --------------------------------------------------- handlers and dispatch
\* The page state the handlers write, as one record; src tells whether a
\* transport event ("push") or a response ("pull") is being applied.
PageState(src) ==
    [view |-> view, lastPositions |-> lastPositions, logEntries |-> logEntries,
     delivered |-> delivered, invoked |-> <<>>, src |-> src]

\* updatePositionsTable without its guard.
updatePositionsTableUnguarded(data, st) == [st EXCEPT !.lastPositions = data]

\* updatePositionsTable(positions): if (positions) lastPositions = positions
updatePositionsTable(data, st) ==
    IF Truthy(data) THEN [st EXCEPT !.lastPositions = data] ELSE st

\* addLogEntry: logEntries.unshift(entry), pop beyond MAX_LOG_ENTRIES
addLogEntry(entry, st) ==
    LET grown == <<entry>> \o st.logEntries
    IN [st EXCEPT !.logEntries =
           IF Len(grown) > MAX_LOG_ENTRIES THEN SubSeq(grown, 1, MAX_LOG_ENTRIES)
           ELSE grown]

\* renderPendingOrders / renderHealthChecks / renderExternalAccounts: an
\* absent list hides the card, anything else is drawn.
RenderCard(slot, data, st) ==
    [st EXCEPT !.view[slot] = IF Truthy(data) THEN data ELSE "hidden"]

\* What the body of each registered handler does with its argument.  The
\* portfolio, risk and status handlers read fields of data first, so a null
\* argument makes them throw before they write anything.
HandlerBody(h, data, st) ==
    CASE h = "dash_portfolio" ->
           IF data = Null THEN st ELSE [st EXCEPT !.view["portfolio"] = data]
      [] h = "dash_risk" ->
           IF data = Null THEN st ELSE [st EXCEPT !.view["risk"] = data]
      [] h = "dash_status" ->
           IF data = Null THEN st
           ELSE [st EXCEPT !.view["status"] = data, !.view["statusbar"] = data]
      [] h = "common_status" ->
           IF data = Null THEN st ELSE [st EXCEPT !.view["statusbar"] = data]
      [] h = "dash_positions" -> updatePositionsTable(data, st)
      [] h = "dash_events" ->
           IF data = Null THEN st ELSE addLogEntry(data, st)
      [] h = "dash_pending_orders" -> RenderCard("pending_orders", data, st)
      [] h = "dash_health_checks" -> RenderCard("health_checks", data, st)
      [] h = "dash_external_accounts" -> RenderCard("external_accounts", data, st)

\* The handlers that read a field of data at once, called with null: the
\* call raises a TypeError.
HandlerThrows(h, data) ==
    /\ data = Null
    /\ h \in {"dash_portfolio", "dash_risk", "dash_status", "common_status"}

\* One iteration of handlers.forEach(h => { try { h(data) } catch ... }).
CallHandler(h, data, st) ==
    LET called == [st EXCEPT !.delivered[h] = Append(@, <<st.src, data>>),
                             !.invoked = Append(@, h)]
    IN HandlerBody(h, data, called)

\* forEach that walks the list from its end.
RECURSIVE ForEachHandlerBackwards(_, _, _)
ForEachHandlerBackwards(hs, data, st) ==
    IF hs = <<>> THEN st
    ELSE ForEachHandlerBackwards(SubSeq(hs, 1, Len(hs) - 1), data,
                                 CallHandler(hs[Len(hs)], data, st))

\* handlers.forEach over a list of handlers, first to last.
RECURSIVE ForEachHandler(_, _, _)
ForEachHandler(hs, data, st) ==
    IF hs = <<>> THEN st
    ELSE ForEachHandler(Tail(hs), data, CallHandler(Head(hs), data, st))

\* _dispatch with one try/catch around the whole loop: the first handler
\* that throws ends it.
DispatchStopsAtThrow(eventType, data, st) ==
    LET hs == handlers[eventType]
        throwing == {k \in DOMAIN hs : HandlerThrows(hs[k], data)}
        stop == IF throwing = {} THEN Len(hs)
                ELSE CHOOSE k \in throwing : \A j \in throwing : k <= j
    IN ForEachHandler(SubSeq(hs, 1, stop), data, st)

\* _dispatch(eventType, data)
Dispatch(eventType, data, st) == ForEachHandler(handlers[eventType], data, st)

\* The page state after a step that ran handlers.
Commit(st) ==
    /\ view' = st.view
    /\ lastPositions' = st.lastPositions
    /\ logEntries' = st.logEntries
    /\ delivered' = st.delivered
    /\ lastInvoked' = IF st.invoked = <<>> THEN lastInvoked ELSE st.invoked

\* The channels connect() adds a listener for.
Listened(channel) == channel \in SeqToSet(eventTypes)

\* A listener whose catch block still dispatches, with no data.
ListenerDispatchesOnError(channel, text, st) ==
    IF ParseOk(text) THEN Dispatch(channel, JSONParse(text), st)
    ELSE Dispatch(channel, Null, st)

\* The listener connect() adds per event type: parse e.data, dispatch it;
\* a parse error is caught and logged.
Listener(channel, text, st) ==
    IF ParseOk(text) THEN Dispatch(channel, JSONParse(text), st) ELSE st

\* The record of what was applied to the pulled channels.
Record(channel, data) ==
    IF channel \in PullResources
    THEN [appliedTo EXCEPT ![channel] = Append(@, data)]
    ELSE appliedTo

\* The open transport fires the named event `channel` with e.data = text.
OnMessage(channel, text) ==
    /\ eventSource = "open"
    /\ applied < MaxEvents
    /\ applied' = applied + 1
    /\ produced' = [produced EXCEPT ![channel] = Append(@, text)]
    /\ Commit(IF Listened(channel) THEN Listener(channel, text, PageState("push"))
              ELSE PageState("push"))
    /\ appliedTo' = IF Listened(channel) /\ ParseOk(text)
                    THEN Record(channel, JSONParse(text)) ELSE appliedTo
    /\ UNCHANGED <<moreVars, connVars, pageVars, pending, eqVars>>

\* ------------------------------------------------------- the dashboard page
\* What api(path) can come to: a network error, a non-2xx status, or a 2xx
\* response with a body.
Responses == {"neterr", "http500"} \cup DataTexts

\* api(path): resolves with the parsed body, rejects otherwise.
ApiResolves(resp) == resp \in DataTexts /\ ParseOk(resp)

\* The DOMContentLoaded listener of dashboard.js: connect, then issue the
\* initial requests.
DOMContentLoaded ==
    /\ phase = "loading"
    /\ regPc = Len(Registrations)
    /\ phase' = "ready"
    /\ ConnectBody
    /\ pending' = [r \in PullResources |-> "inflight"]
    /\ UNCHANGED <<moreVars, timers, pageConnects, threw, regPc, handlers, histVars, aggVars,
                   applied, eqVars>>

\* The .then of an initial request: portfolio, risk and status go through
\* sse._dispatch, positions through updatePositionsTable.
ApplyPull(resource, data, st) ==
    IF resource = "positions" THEN updatePositionsTable(data, st)
    ELSE Dispatch(resource, data, st)

\* An initial request settles; a rejection ends in .catch(() => {}).
PullSettle(resource, resp) ==
    /\ pending[resource] = "inflight"
    /\ applied < MaxEvents
    /\ applied' = applied + 1
    /\ pending' = [pending EXCEPT ![resource] = "done"]
    /\ Commit(IF ApiResolves(resp)
              THEN ApplyPull(resource, JSONParse(resp), PageState("pull"))
              ELSE PageState("pull"))
    /\ appliedTo' = IF ApiResolves(resp) THEN Record(resource, JSONParse(resp))
                    ELSE appliedTo
    /\ UNCHANGED <<moreVars, connVars, pageVars, produced, eqVars>>

\* ---------------------------------------------------------- the equity page
\* What a request for /api/equity-history can come to: a network error, a
\* non-2xx status, or a 2xx body that is malformed, null, an object without
\* snapshots, or an object with the snapshots of the requested range.
EquityResponses == {"neterr", "http500", "{bad", "null", "{}", "{snapshots}"}

\* await api(...) returns data whose fields can be read; otherwise the
\* function's catch block runs.
EquityReadable(resp) == resp \in {"{}", "{snapshots}"}

\* What a response amounts to for its caller: a failure (api rejects, or
\* the body has no fields to read), an object without snapshots, or the
\* snapshots asked for.
EquityOutcome(resp) ==
    CASE resp = "{snapshots}" -> "snapshots"
      [] resp = "{}"          -> "empty"
      [] OTHER                -> "failed"

\* data.snapshots || [] for the response to request id.
SnapshotsOf(id, resp) == IF resp = "{snapshots}" THEN <<"snapshots", id>> ELSE <<>>

\* A response handler that drops the response of a request that is no longer
\* the latest issued.
StoreSnapshotsIfLatest(id, resp) ==
    lastSnapshots' = IF EquityReadable(resp) /\ id = eqIssued
                     THEN SnapshotsOf(id, resp) ELSE lastSnapshots

\* lastSnapshots = data.snapshots || [] in the try block, nothing in catch.
StoreSnapshots(id, resp) ==
    lastSnapshots' = IF EquityReadable(resp) THEN SnapshotsOf(id, resp)
                     ELSE lastSnapshots

\* The DOMContentLoaded listener of equity.js up to its await.
EquityDOMContentLoaded ==
    /\ eqPhase = "loading"
    /\ eqPhase' = "awaiting"
    /\ eqInflight' = {0}
    /\ UNCHANGED <<moreVars, connVars, pageVars, histVars, aggVars, pending, applied,
                   eqIssued, eqArrivals, lastSnapshots>>

\* The initial request settles: the data is stored when it can be read, and
\* the search button gets its click listener either way.
EquityInitSettle(resp) ==
    /\ eqPhase = "awaiting"
    /\ eqPhase' = "ready"
    /\ eqInflight' = eqInflight \ {0}
    /\ eqArrivals' = Append(eqArrivals, <<0, EquityOutcome(resp)>>)
    /\ StoreSnapshots(0, resp)
    /\ UNCHANGED <<moreVars, connVars, pageVars, histVars, aggVars, pending, applied, eqIssued>>

\* loadEquityByRange(dateFrom, dateTo) up to its await: a click on the search
\* button issues one more request.
LoadEquityByRange ==
    /\ eqPhase = "ready"
    /\ eqIssued < MaxLoads
    /\ eqIssued' = eqIssued + 1
    /\ eqInflight' = eqInflight \cup {eqIssued + 1}
    /\ UNCHANGED <<moreVars, connVars, pageVars, histVars, aggVars, pending, applied,
                   eqPhase, eqArrivals, lastSnapshots>>

\* loadEquityByRange after its await: the response to request id arrives.
EquityResponse(id, resp) ==
    /\ id \in eqInflight
    /\ id # 0
    /\ eqInflight' = eqInflight \ {id}
    /\ eqArrivals' = Append(eqArrivals, <<id, EquityOutcome(resp)>>)
    /\ StoreSnapshots(id, resp)
    /\ UNCHANGED <<moreVars, connVars, pageVars, histVars, aggVars, pending, applied,
                   eqPhase, eqIssued>>

\* ---------------------------------------------------------- specifications
Next ==
    \/ On
    \/ DOMContentLoaded
    \/ PageConnect
    \/ OnOpen
    \/ OnError
    \/ TimerFire
    \/ \E c \in PushChannels, t \in DataTexts : OnMessage(c, t)
    \/ \E r \in PullResources, resp \in Responses : PullSettle(r, resp)
    \/ EquityDOMContentLoaded
    \/ \E resp \in EquityResponses : EquityInitSettle(resp)
    \/ LoadEquityByRange
    \/ \E id \in 1..MaxLoads, resp \in EquityResponses : EquityResponse(id, resp)

Spec == Init /\ [][Next]_vars

\* The connection life cycle alone: no named events, no responses.
NextConn ==
    \/ On
    \/ DOMContentLoaded
    \/ PageConnect
    \/ OnOpen
    \/ OnError
    \/ TimerFire

SpecConn == Init /\ [][NextConn]_vars

\* Timers that are pending do fire.
SpecConnLive == SpecConn /\ WF_vars(TimerFire)

\* The connection life cycle with a page script that calls disconnect().
NextDisconnect == NextConn \/ Disconnect

SpecDisconnect == Init /\ [][NextDisconnect]_vars

\* Events and responses over a connection that only the page load and the
\* reconnect timer open.
NextStream ==
    \/ On
    \/ DOMContentLoaded
    \/ OnOpen
    \/ OnError
    \/ TimerFire
    \/ \E c \in PushChannels, t \in DataTexts : OnMessage(c, t)
    \/ \E r \in PullResources, resp \in Responses : PullSettle(r, resp)

SpecStream == Init /\ [][NextStream]_vars

\* The pull loaders: the equity page's range requests, and the dashboard's
\* initial positions request next to the positions push events.
NextLoad ==
    \/ On
    \/ DOMContentLoaded
    \/ OnOpen
    \/ \E t \in DataTexts : OnMessage("positions", t)
    \/ \E resp \in Responses : PullSettle("positions", resp)
    \/ EquityDOMContentLoaded
    \/ \E resp \in EquityResponses : EquityInitSettle(resp)
    \/ LoadEquityByRange
    \/ \E id \in 1..MaxLoads, resp \in EquityResponses : EquityResponse(id, resp)

SpecLoad == Init /\ [][NextLoad]_vars

\* ------------------------------------------------------ trade page (pulls)
\* What a request can come back with on the trade page: the responses of
\* Responses and a well-formed body that carries an error field.
TradeResponses == Responses \cup {"{error}"}

\* resp.json() of a 2xx response: rejects on a malformed body.
BodyParses(resp) == resp = "{error}" \/ (resp \in DataTexts /\ ParseOk(resp))

BodyValue(resp) == IF resp = "{error}" THEN "ERR" ELSE JSONParse(resp)

Threw == [kind |-> "threw", value |-> Null]

Returned(v) == [kind |-> "returned", value |-> v]

\* An api() that catches every failure and hands back null.
ApiSwallowsFailure(resp) ==
    IF resp \in {"neterr", "http500"} \/ ~BodyParses(resp)
    THEN Returned(Null)
    ELSE Returned(BodyValue(resp))

\* api(path): fetch rejects on a network error, a non-2xx status throws,
\* resp.json() rejects on a malformed body; otherwise the parsed body.
Api(resp) ==
    CASE resp = "neterr"   -> Threw
      [] resp = "http500"  -> Threw
      [] ~BodyParses(resp) -> Threw
      [] OTHER             -> Returned(BodyValue(resp))

\* promise.catch(() => fallback)
OrElse(outcome, fallback) ==
    IF outcome.kind = "threw" THEN fallback ELSE outcome.value

FilterTypes == {"all", "buy", "sell"}

\* loadTradeData up to its await: the loading indicator is shown and the two
\* requests go out.
LoadTradeDataStart ==
    /\ tdInflight < MaxLoads
    /\ tdLoading' = "inline"
    /\ tdInflight' = tdInflight + 1

\* Click on a filter tab.
FilterTabClick(type) ==
    /\ LoadTradeDataStart
    /\ currentFilter' = type
    /\ UNCHANGED <<notTradeVars, cachedEvents, tdSummary, apiOutcomes>>

\* Change of the date input, click on the today button, or the page's
\* DOMContentLoaded listener: loadTradeData(date) with the current filter.
DateInputChange ==
    /\ LoadTradeDataStart
    /\ UNCHANGED <<notTradeVars, currentFilter, cachedEvents, tdSummary,
                   apiOutcomes>>

\* loadTradeData after Promise.all: events falls back to [] and settlement
\* to null when their request failed; the events are cached and rendered
\* (renderExitTypeChart throws on events that are null, which the catch
\* block swallows), the summary comes from the settlement when it is there
\* and carries no error, and the finally block hides the indicator.
TradeDataSettle(r1, r2) ==
    /\ tdInflight > 0
    /\ LET events     == OrElse(Api(r1), "EMPTY")
           settlement == OrElse(Api(r2), Null)
       IN /\ cachedEvents' = events
          /\ tdSummary' = IF events \in {Null, "ERR"} THEN tdSummary
                          ELSE IF Truthy(settlement) /\ settlement # "ERR"
                               THEN "settlement" ELSE "events"
    /\ tdLoading' = "none"
    /\ tdInflight' = tdInflight - 1
    /\ apiOutcomes' = << [resp |-> r1] @@ Api(r1), [resp |-> r2] @@ Api(r2) >>
    /\ UNCHANGED <<notTradeVars, currentFilter>>

NextTrade ==
    \/ \E type \in FilterTypes : FilterTabClick(type)
    \/ DateInputChange
    \/ \E r1, r2 \in TradeResponses : TradeDataSettle(r1, r2)

SpecTrade == Init /\ [][NextTrade]_vars

\* ------------------------------------------- mobile client: TradingState
\* Everything the reducer of the mobile client does not touch.
webVars == <<coreVars, tradeVars, riskVars, axisVars, orderVars, healthVars,
             sortVars, applyVars, detailVars>>

\* SET_SERVER_URL
SetServerUrl(url) ==
    /\ serverUrl' = url
    /\ UNCHANGED <<webVars, tConnected, tConnecting, isDemo, lastError, tData, episode>>

\* SET_CONNECTING
SetConnecting(connecting) ==
    /\ tConnecting' = connecting
    /\ UNCHANGED <<webVars, tConnected, isDemo, serverUrl, lastError, tData, episode>>

\* The history of the connection state since the last user action.
EpisodeAfter(c) ==
    IF c THEN (IF episode \in {"down", "upagain"} THEN "upagain" ELSE "up")
    ELSE (IF episode \in {"up", "upagain", "down"} THEN "down" ELSE "none")

\* A SET_CONNECTED that forgets the demo flag.
SetConnectedKeepsDemo(c) ==
    /\ tConnected' = c
    /\ episode' = EpisodeAfter(c)
    /\ UNCHANGED <<webVars, tConnecting, isDemo, serverUrl, lastError, tData>>

\* SET_CONNECTED: isDemo = !connected.
SetConnected(c) ==
    /\ tConnected' = c
    /\ isDemo' = ~c
    /\ episode' = EpisodeAfter(c)
    /\ UNCHANGED <<webVars, tConnecting, serverUrl, lastError, tData>>

\* SET_ERROR
SetError(e) ==
    /\ lastError' = e
    /\ UNCHANGED <<webVars, tConnected, tConnecting, isDemo, serverUrl, tData, episode>>

\* An UPDATE_* that takes arriving data as the sign of a live connection.
UpdateLeavesDemo(field, payload) ==
    /\ tData' = [tData EXCEPT ![field] = payload]
    /\ isDemo' = FALSE
    /\ UNCHANGED <<webVars, tConnected, tConnecting, serverUrl, lastError, episode>>

\* UPDATE_* (one per data field), from an SSE listener or a pull result:
\* isDemo is not changed.
Update(field, payload) ==
    /\ tData' = [tData EXCEPT ![field] = payload]
    /\ UNCHANGED <<webVars, tConnected, tConnecting, isDemo, serverUrl, lastError,
                   episode>>

\* SET_DEMO_MODE, dispatched by the settings tab's DemoModeToggle.
SetDemoMode(demo) ==
    /\ isDemo' = demo
    /\ episode' = "user"
    /\ UNCHANGED <<webVars, tConnected, tConnecting, serverUrl, lastError, tData>>

\* RESET: back to the initial state.
Reset ==
    /\ tConnected' = FALSE
    /\ tConnecting' = FALSE
    /\ isDemo' = TRUE
    /\ serverUrl' = "default"
    /\ lastError' = "none"
    /\ tData' = [f \in DataFields |-> Null]
    /\ episode' = "none"
    /\ UNCHANGED webVars

NextTrading ==
    \/ \E url \in {"default", "custom"} : SetServerUrl(url)
    \/ \E b \in BOOLEAN : SetConnecting(b)
    \/ \E c \in BOOLEAN : SetConnected(c)
    \/ \E e \in {"none", "error"} : SetError(e)
    \/ \E f \in DataFields : Update(f, "A")
    \/ \E b \in BOOLEAN : SetDemoMode(b)
    \/ Reset

SpecTrading == Init /\ [][NextTrading]_vars

\* ------------------------------------------------- dashboard: risk gauges
\* Largest |daily_loss_pct|, largest limit and largest count in a payload.
MaxLoss == 5
MaxLimit == 5
MaxCount == 2

\* A loss percentage of either sign with a positive limit, and a count of
\* either sign with a positive maximum.
LossInputs == (-MaxLoss..MaxLoss) \X (1..MaxLimit)
CountInputs == (-1..MaxCount) \X (1..MaxCount)

RiskPayload(loss, trades, positions) ==
    [ daily_loss_pct       |-> loss[1],
      daily_loss_limit_pct |-> loss[2],
      daily_trades         |-> trades[1],
      daily_max_trades     |-> trades[2],
      position_count       |-> positions[1],
      max_positions        |-> positions[2] ]

\* The risk payloads: every loss input with every trade-count input while
\* one of MaxCount positions is held, and every pair of count inputs while
\* there is no loss.
RiskPayloads ==
    { RiskPayload(l, t, <<1, MaxCount>>) : l \in LossInputs, t \in CountInputs }
      \cup
    { RiskPayload(<<0, MaxLimit>>, t, p) : t \in CountInputs, p \in CountInputs }

\* Math.abs
Abs(x) == IF x < 0 THEN -x ELSE x

\* x / limit * 100, kept exact as the fraction (x * 100) / limit.
Ratio(x, limit) == Pct(x * 100, limit)

\* Math.min(p, 100)
CapAt100(p) == IF p.num >= 100 * p.den THEN Pct(100, 1) ELSE p

\* A loss gauge computed from the signed loss.
LossPctSigned(data) ==
    CapAt100(Ratio(data.daily_loss_pct, data.daily_loss_limit_pct))

\* const lossPct = Math.min(Math.abs(daily_loss_pct) / daily_loss_limit_pct * 100, 100)
LossPct(data) ==
    CapAt100(Ratio(Abs(data.daily_loss_pct), data.daily_loss_limit_pct))

\* const tradesPct = Math.min(daily_trades / daily_max_trades * 100, 100)
TradesPct(data) == CapAt100(Ratio(data.daily_trades, data.daily_max_trades))

\* const posPct = Math.min(position_count / max_positions * 100, 100)
PosPct(data) == CapAt100(Ratio(data.position_count, data.max_positions))

\* The gauge part of the handler registered with sse.on('risk', ...).
RiskHandler(data) ==
    /\ riskData' = <<data>>
    /\ riskGauges' = [loss |-> LossPct(data), trades |-> TradesPct(data),
                      positions |-> PosPct(data)]
    /\ UNCHANGED notRiskVars

NextRisk == \E data \in RiskPayloads : RiskHandler(data)

SpecRisk == Init /\ [][NextRisk]_vars

\* ------------------------------------------------ equity page: Y-axis range
\* Longest series of snapshots drawn.
MaxSeriesLen == 3

\* total_equity of a snapshot: an empty account and four funded ones.
EquityValues == {0, 50, 100, 150, 200}

\* snapshots.map(s => s.total_equity) of the snapshot lists drawn.
EquitySeries == UNION {[1..n -> EquityValues] : n \in 0..MaxSeriesLen}

\* Math.min(...equities) and Math.max(...equities)
MinOf(series) ==
    CHOOSE v \in SeqToSet(series) : \A w \in SeqToSet(series) : v <= w

MaxOf(series) ==
    CHOOSE v \in SeqToSet(series) : \A w \in SeqToSet(series) : v >= w

\* const padding = (maxEquity - minEquity) * 0.3 || maxEquity * 0.02, in
\* hundredths: the right operand is taken when the left one is 0.
Padding(minEquity, maxEquity) ==
    IF (maxEquity - minEquity) * 30 # 0
    THEN (maxEquity - minEquity) * 30
    ELSE maxEquity * 2

\* A range padded below the data only.
YAxisRangePaddedBelow(series) ==
    [yMin |-> MinOf(series) * 100 - Padding(MinOf(series), MaxOf(series)),
     yMax |-> MaxOf(series) * 100]

\* const yMin = minEquity - padding; const yMax = maxEquity + padding, in
\* hundredths.
YAxisRange(series) ==
    [yMin |-> MinOf(series) * 100 - Padding(MinOf(series), MaxOf(series)),
     yMax |-> MaxOf(series) * 100 + Padding(MinOf(series), MaxOf(series))]

\* renderEquityChart(snapshots): the no-data notice for an empty list,
\* otherwise the chart with its Y-axis range.
RenderEquityChart(series) ==
    /\ chartSeries' = series
    /\ yRange' = IF series = <<>> THEN yRange ELSE YAxisRange(series)
    /\ UNCHANGED notAxisVars

NextAxis == \E series \in EquitySeries : RenderEquityChart(series)

SpecAxis == Init /\ [][NextAxis]_vars

\* ------------------------------------------- dashboard: pending orders
\* Longest list of pending orders in one payload.
MaxOrders == 2

\* elapsed_seconds and timeout_seconds of an order.
ElapsedValues == {0, 71, 72, 73, 100}
TimeoutValues == {60, 90}

\* progress_pct as the backend fills it in: elapsed / timeout * 100, cut
\* at 100 (elapsed is never negative).
ProgressPct(elapsed, timeout) == CapAt100(Ratio(elapsed, timeout))

\* One entry of a pending_orders payload.
PendingOrder(elapsed, timeout) ==
    [ elapsed_seconds |-> elapsed,
      timeout_seconds |-> timeout,
      progress_pct    |-> ProgressPct(elapsed, timeout) ]

PendingOrders ==
    { PendingOrder(el, t) : el \in ElapsedValues, t \in TimeoutValues }

PendingOrderLists == UNION {[1..n -> PendingOrders] : n \in 0..MaxOrders}

\* A notice shown only once the progress has passed 80.
ImminentFallbackStrict(o) == o.progress_pct.num > 80 * o.progress_pct.den

\* o.progress_pct >= 80: the bar turns red and the fallback notice is shown.
ImminentFallback(o) == o.progress_pct.num >= 80 * o.progress_pct.den

\* orders.map(o => ...): the bar is as wide as o.progress_pct.
OrderItem(o) == [width |-> o.progress_pct, imminent |-> ImminentFallback(o)]

\* renderPendingOrders(orders): an empty list hides the card and leaves the
\* list as it was; otherwise the card is shown and the list is rebuilt.
RenderPendingOrders(orders) ==
    /\ IF orders = <<>>
       THEN /\ poCard' = "none"
            /\ UNCHANGED <<poOrders, poItems>>
       ELSE /\ poCard' = "block"
            /\ poOrders' = orders
            /\ poItems' = [i \in DOMAIN orders |-> OrderItem(orders[i])]
    /\ UNCHANGED notOrderVars

NextOrders == \E orders \in PendingOrderLists : RenderPendingOrders(orders)

SpecOrders == Init /\ [][NextOrders]_vars

\* --------------------------------------------- dashboard: health checks
\* Largest number of checks the backend runs.
MaxChecks == 3

\* One check: whether it passed, and how serious its failure is.
HealthCheck == [ok : BOOLEAN, level : {"critical", "warning"}]

CheckLists == UNION {[1..n -> HealthCheck] : n \in 0..MaxChecks}

IsFailing(c) == ~c.ok

\* The push payload of a list of checks: the failing ones only.
FailingOnly(checks) == SelectSeq(checks, IsFailing)

\* A test for a critical check that does not look at ok.
HasCriticalOfAnyOutcome(checks) ==
    \E i \in DOMAIN checks : checks[i].level = "critical"

\* checks.some(c => c.level === 'critical' && !c.ok)
HasCritical(checks) ==
    \E i \in DOMAIN checks : checks[i].level = "critical" /\ ~checks[i].ok

\* checks.some(c => c.level === 'warning' && !c.ok)
HasWarning(checks) ==
    \E i \in DOMAIN checks : checks[i].level = "warning" /\ ~checks[i].ok

\* const failed = failedOnly ? checks : checks.filter(c => !c.ok)
FailedOf(checks, failedOnly) ==
    IF failedOnly THEN checks ELSE SelectSeq(checks, IsFailing)

\* The badge and dot written for a non-empty payload.
BadgeFor(checks, failedOnly) ==
    CASE HasCritical(checks) ->
           [level |-> "CRITICAL", count |-> Len(FailedOf(checks, failedOnly))]
      [] HasWarning(checks) ->
           [level |-> "WARNING", count |-> Len(FailedOf(checks, failedOnly))]
      [] OTHER -> [level |-> "OK", count |-> 0]

\* A render that takes an empty payload to mean that every check passed.
renderHealthChecksEmptyIsOk(checks, failedOnly) ==
    IF checks = <<>>
    THEN /\ hcCard' = "none"
         /\ healthBadge' = [level |-> "OK", count |-> 0]
    ELSE /\ hcCard' = "block"
         /\ healthBadge' = BadgeFor(checks, failedOnly)

\* renderHealthChecks(checks, failedOnly): an empty payload hides the card
\* and returns; otherwise the card is shown and the badge written.
renderHealthChecks(checks, failedOnly) ==
    IF checks = <<>>
    THEN /\ hcCard' = "none"
         /\ UNCHANGED healthBadge
    ELSE /\ hcCard' = "block"
         /\ healthBadge' = BadgeFor(checks, failedOnly)

\* The handler of the health_checks push event: the failing checks only.
HealthPush(checks) ==
    /\ renderHealthChecks(FailingOnly(checks), TRUE)
    /\ hcChecks' = checks
    /\ hcFailedOnly' = TRUE
    /\ UNCHANGED <<notHealthVars, hcPulled>>

\* A /api/health-checks result, at load or from the 30 s poll: all checks.
HealthPull(checks) ==
    /\ renderHealthChecks(checks, FALSE)
    /\ hcChecks' = checks
    /\ hcFailedOnly' = FALSE
    /\ hcPulled' = TRUE
    /\ UNCHANGED notHealthVars

NextHealth ==
    \/ \E checks \in CheckLists : HealthPush(checks)
    \/ \E checks \in CheckLists : HealthPull(checks)

SpecHealth == Init /\ [][NextHealth]_vars

\* ---------------------------------------------- dashboard: positions table
\* Most positions held at once.
MaxPositions == 3

\* pos.name by symbol: two of the names differ in case only.
NameOf(symbol) ==
    CASE symbol % 3 = 1 -> "beta"
      [] symbol % 3 = 2 -> "Alpha"
      [] OTHER          -> "alpha"

\* One entry of a positions payload.
Position(symbol, pnl) ==
    [symbol |-> symbol, name |-> NameOf(symbol), unrealized_pnl_pct |-> pnl]

Positions == {Position(s, pnl) : s \in 1..MaxPositions, pnl \in {1, 2}}

\* The positions payloads: lists of positions of different symbols.
PositionLists ==
    {l \in UNION {[1..n -> Positions] : n \in 0..MaxPositions} :
        \A i, j \in DOMAIN l : i # j => l[i].symbol # l[j].symbol}

\* The columns whose header sorts the table.
SortKeys == {"unrealized_pnl_pct", "name"}

\* String.prototype.toLowerCase
ToLowerCase(str) == IF str = "Alpha" THEN "alpha" ELSE str

\* The < of JavaScript on the lower-case names.
StrLess(x, y) == x = "alpha" /\ y = "beta"

\* va < vb for the values the comparator reads from a and b.
KeyLess(a, b, key) ==
    IF key = "name"
    THEN StrLess(ToLowerCase(a.name), ToLowerCase(b.name))
    ELSE a[key] < b[key]

\* The comparator given to sort.
Compare(a, b, key, dir) ==
    CASE KeyLess(a, b, key) -> IF dir = "asc" THEN -1 ELSE 1
      [] KeyLess(b, a, key) -> IF dir = "asc" THEN 1 ELSE -1
      [] OTHER              -> 0

\* Insertion into a sorted list before the elements that compare equal.
InsertBeforeEqual(x, sorted, key, dir) ==
    LET before == SelectSeq(sorted, LAMBDA y : Compare(y, x, key, dir) < 0)
        after  == SelectSeq(sorted, LAMBDA y : Compare(y, x, key, dir) >= 0)
    IN before \o <<x>> \o after

\* Insertion into a sorted list after the elements that do not compare
\* greater: what a stable sort does with x.
Insert(x, sorted, key, dir) ==
    LET before == SelectSeq(sorted, LAMBDA y : Compare(y, x, key, dir) <= 0)
        after  == SelectSeq(sorted, LAMBDA y : Compare(y, x, key, dir) > 0)
    IN before \o <<x>> \o after

\* [...positions].sort(comparator): Array.prototype.sort is stable, and it
\* works on a copy.
RECURSIVE Sort(_, _, _)
Sort(positions, key, dir) ==
    IF positions = <<>> THEN <<>>
    ELSE Insert(positions[Len(positions)],
                Sort(SubSeq(positions, 1, Len(positions) - 1), key, dir),
                key, dir)

\* renderSortedPositions(): the empty notice for an empty list, otherwise
\* one row per position in sorted order.
SortedRows(positions, key, dir) == Sort(positions, key, dir)

\* updatePositionsTable(positions) with a list (an empty one is truthy too).
UpdatePositions(positions) ==
    /\ posList' = positions
    /\ posRows' = SortedRows(positions, positionSortKey, positionSortDir)
    /\ UNCHANGED <<notSortVars, positionSortKey, positionSortDir>>

\* Click on a sortable column header.
SortClick(key) ==
    /\ IF positionSortKey = key
       THEN /\ positionSortDir' = IF positionSortDir = "desc" THEN "asc" ELSE "desc"
            /\ UNCHANGED positionSortKey
       ELSE /\ positionSortKey' = key
            /\ positionSortDir' = IF key = "name" THEN "asc" ELSE "desc"
    /\ posRows' = SortedRows(posList, positionSortKey', positionSortDir')
    /\ UNCHANGED <<notSortVars, posList>>

NextSort ==
    \/ \E positions \in PositionLists : UpdatePositions(positions)
    \/ \E key \in SortKeys : SortClick(key)

SpecSort == Init /\ [][NextSort]_vars

\* ------------------------------------------- review page: apply a parameter
\* Most times the review is rendered again after the first time.
MaxRenders == 2

\* Most requests of one button counted as in flight.
MaxApplyInflight == 2

\* What the POST can come to: fetch rejects; a 2xx answer with success true
\* or false; a non-2xx answer with a JSON body; an answer whose body is
\* not JSON.
ApplyResponses ==
    {"network_error", "ok_success", "ok_rejected", "error_json", "error_not_json"}

\* fetch or response.json() throws.
ApplyThrows(r) == r \in {"network_error", "error_not_json"}

\* response.ok && result.success
ApplySucceeded(r) == r = "ok_success"

\* renderLLMReview(): the recommendation gets a new button.
RenderLLMReview ==
    /\ applyReload # "done"
    /\ Len(applyButtons) <= MaxRenders
    /\ applyButtons' = Append(applyButtons, FreshButton)
    /\ applyInflight' = Append(applyInflight, 0)
    /\ UNCHANGED <<notApplyVars, applyReload, applyLast>>

\* applyParameterChange up to its fetch, with the button left enabled.
ApplyClickLeavesEnabled ==
    LET b == Len(applyButtons) IN
    /\ applyReload # "done"
    /\ ~applyButtons[b].disabled
    /\ applyInflight[b] < MaxApplyInflight
    /\ \E confirmed \in BOOLEAN :
          IF confirmed
          THEN /\ applyButtons' = [applyButtons EXCEPT ![b].label = "applying"]
               /\ applyInflight' = [applyInflight EXCEPT ![b] = @ + 1]
          ELSE UNCHANGED <<applyButtons, applyInflight>>
    /\ UNCHANGED <<notApplyVars, applyReload, applyLast>>

\* applyParameterChange(event, idx) up to its fetch: a click on the button
\* in the document (a disabled button gets no click); after confirm() the
\* button is disabled and the request sent.
ApplyClick ==
    LET b == Len(applyButtons) IN
    /\ applyReload # "done"
    /\ ~applyButtons[b].disabled
    /\ applyInflight[b] < MaxApplyInflight
    /\ \E confirmed \in BOOLEAN :
          IF confirmed
          THEN /\ applyButtons' = [applyButtons EXCEPT
                                      ![b] = [disabled |-> TRUE, label |-> "applying"]]
               /\ applyInflight' = [applyInflight EXCEPT ![b] = @ + 1]
          ELSE UNCHANGED <<applyButtons, applyInflight>>
    /\ UNCHANGED <<notApplyVars, applyReload, applyLast>>

\* applyParameterChange after its fetch: the request of button b settles
\* with r. Nothing is returned and nothing is written but the button;
\* the catch block logs the exception.
ApplySettle(b, r) ==
    /\ applyReload # "done"
    /\ applyInflight[b] > 0
    /\ applyInflight' = [applyInflight EXCEPT ![b] = @ - 1]
    /\ applyButtons' =
          [applyButtons EXCEPT ![b] =
              IF ~ApplyThrows(r) /\ ApplySucceeded(r)
              THEN [@ EXCEPT !.label = "applied"]
              ELSE [disabled |-> FALSE, label |-> "apply"]]
    /\ applyReload' =
          IF ~ApplyThrows(r) /\ ApplySucceeded(r) /\ applyReload = "none"
          THEN "pending" ELSE applyReload
    /\ applyLast' = [btn |-> b, resp |-> r, console |-> ApplyThrows(r),
                      shown |-> "none", button |-> applyButtons'[b]]
    /\ UNCHANGED notApplyVars

\* window.location.reload(), three seconds after a success: the page and
\* its requests are gone.
ApplyReload ==
    /\ applyReload = "pending"
    /\ applyReload' = "done"
    /\ UNCHANGED <<notApplyVars, applyButtons, applyInflight, applyLast>>

NextApply ==
    \/ RenderLLMReview
    \/ ApplyClick
    \/ \E b \in DOMAIN applyButtons : \E r \in ApplyResponses : ApplySettle(b, r)
    \/ ApplyReload

SpecApply == Init /\ [][NextApply]_vars

\* --------------------------------------------- equity page: position details
\* Most position-detail requests started for the date row.
MaxDetailLoads == 3

\* What a position-detail request can come to: positions, no positions,
\* or a rejection (api throws).
DetailResponses == {"positions", "empty", "failed"}

\* A row of class position-detail-row; id 0 is a row made from the cache.
DetailRow(id, kind) == [id |-> id, kind |-> kind]

\* insertPositionDetailRow(afterRow, positions): a new row right after the
\* date row.
insertPositionDetailRow(rows, id) == <<DetailRow(id, "detail")>> \o rows

\* detailRow.remove()
RemoveRow(rows, row) == SelectSeq(rows, LAMBDA x : x # row)

\* detailRow.innerHTML = ...: the row, wherever it is, shows kind.
SetRowKind(rows, row, kind) ==
    [i \in DOMAIN rows |-> IF rows[i] = row THEN DetailRow(row.id, kind) ELSE rows[i]]

\* togglePositionDetail(btn, dateStr): a click on the expand button; cached
\* says whether lastSnapshots holds positions for the date.
TogglePositionDetail(cached) ==
    /\ IF detailRows # <<>>
       THEN /\ detailRows' = Tail(detailRows)
            /\ detailBtn' = "collapsed"
            /\ UNCHANGED <<detailReqs, detailStarted>>
       ELSE /\ detailBtn' = "expanded"
            /\ IF cached
               THEN /\ detailRows' = insertPositionDetailRow(detailRows, 0)
                    /\ UNCHANGED <<detailReqs, detailStarted>>
               ELSE /\ detailStarted < MaxDetailLoads
                    /\ detailStarted' = detailStarted + 1
                    /\ detailRows' = <<DetailRow(detailStarted', "loading")>>
                    /\ detailReqs' = detailReqs \cup {detailStarted'}
    /\ UNCHANGED notDetailVars

\* The then and catch callbacks of the request started with loading row id.
DetailSettle(id, r) ==
    LET detailRow == DetailRow(id, "loading") IN
    /\ id \in detailReqs
    /\ detailReqs' = detailReqs \ {id}
    /\ detailRows' =
          IF r = "positions"
          THEN insertPositionDetailRow(RemoveRow(detailRows, detailRow), id)
          ELSE SetRowKind(detailRows, detailRow, r)
    /\ UNCHANGED <<notDetailVars, detailBtn, detailStarted>>

NextDetail ==
    \/ \E cached \in BOOLEAN : TogglePositionDetail(cached)
    \/ \E id \in detailReqs : \E r \in DetailResponses : DetailSettle(id, r)

SpecDetail == Init /\ [][NextDetail]_vars

\* ------------------------------------------------------------------ claims
\* C1: the delay given to setTimeout after a failure is the base value when
\* no failure has happened since the last successful open (or since the
\* start), and otherwise double the delay used after the previous failure,
\* cut at the ceiling; it never exceeds the ceiling.
C1_BackoffDoubles ==
    [][ (timers' > timers) =>
          /\ lastDelay' = IF lastDelay = 0 THEN BaseReconnectDelay
                          ELSE Min(2 * lastDelay, maxReconnectDelay)
          /\ lastDelay' <= maxReconnectDelay ]_vars

\* C1 witness: consecutive failures have driven the delay used to the
\* ceiling, and a reconnect is scheduled with it.
C1_Witness == lastDelay = maxReconnectDelay /\ timers > 0 /\ eventSource = "closed"

\* C2: after an error the client is disconnected with a reconnect timer
\* pending, however long the run of failures, and when timers fire a closed
\* client always gets back to a connect() (a transport that is connecting).
C2_AlwaysReconnects ==
    /\ [](eventSource = "closed" =>
            (timers > 0 /\ ~connected /\ sbStatus = "disconnected"))
    /\ ((eventSource = "closed") ~> (eventSource = "connecting"))

\* C2 witness: the client is disconnected after the run of failures that
\* reached the ceiling, with its reconnect pending.
C2_Witness ==
    eventSource = "closed" /\ reconnectDelay = maxReconnectDelay
        /\ lastDelay = maxReconnectDelay /\ timers = 1

\* C3 (as claimed): a connect() made while the transport is connecting or
\* open changes nothing in the client.
C3_ConnectIdempotent ==
    [][ ((PageConnect \/ TimerFire) /\ eventSource \in {"connecting", "open"})
          => UNCHANGED <<moreVars, eventSource, connected, reconnectDelay, sbStatus>> ]_vars

\* C4 (as claimed): a disconnect() call leaves the transport closed, the
\* client disconnected and no reconnect pending.
C4_DisconnectStops ==
    [][ Disconnect =>
          (eventSource' \in {"none", "closed"} /\ ~connected' /\ timers' = 0) ]_vars

\* The payloads of the well-formed texts of a sequence of e.data, in order.
RECURSIVE ParsedWellFormed(_)
ParsedWellFormed(texts) ==
    IF texts = <<>> THEN <<>>
    ELSE IF ParseOk(Head(texts))
         THEN <<JSONParse(Head(texts))>> \o ParsedWellFormed(Tail(texts))
         ELSE ParsedWellFormed(Tail(texts))

\* The payloads a handler was called with for transport events, in order.
RECURSIVE PushPart(_)
PushPart(calls) ==
    IF calls = <<>> THEN <<>>
    ELSE IF Head(calls)[1] = "push"
         THEN <<Head(calls)[2]>> \o PushPart(Tail(calls))
         ELSE PushPart(Tail(calls))

\* The sse.on(...) call sites that have run.
Registered == {i \in 1..regPc : TRUE}

\* The handlers registered for a channel, in the order their call sites ran.
RECURSIVE RegisteredFrom(_, _)
RegisteredFrom(i, c) ==
    IF i > regPc THEN <<>>
    ELSE IF Registrations[i].channel = c
         THEN <<Registrations[i].handler>> \o RegisteredFrom(i + 1, c)
         ELSE RegisteredFrom(i + 1, c)

RegisteredFor(c) == RegisteredFrom(1, c)

\* The transport fired a well-formed event on channel c in this step.
FiredWellFormed(c) ==
    /\ Len(produced'[c]) = Len(produced[c]) + 1
    /\ ParseOk(produced'[c][Len(produced'[c])])

\* The transport fired a malformed event on channel c in this step.
FiredMalformed(c) ==
    /\ Len(produced'[c]) = Len(produced[c]) + 1
    /\ ~ParseOk(produced'[c][Len(produced'[c])])

FiredValue(c) == JSONParse(produced'[c][Len(produced'[c])])

\* C5 (as claimed): for every channel, each of its handlers has been called
\* for exactly the channel's well-formed events, in the order the transport
\* fired them: nothing reordered, duplicated or dropped.
C5_OrderedDelivery ==
    \A i \in Registered :
        PushPart(delivered[Registrations[i].handler])
            = ParsedWellFormed(produced[Registrations[i].channel])

\* C6: an event the client dispatches on a channel calls every handler
\* registered for that channel exactly once, in the order of registration.
C6_RegistrationOrder ==
    [][ \A c \in PushChannels :
          (FiredWellFormed(c) /\ Listened(c)) =>
              /\ lastInvoked' = RegisteredFor(c)
              /\ \A k \in 1..Len(RegisteredFor(c)) :
                    delivered'[RegisteredFor(c)[k]]
                        = Append(delivered[RegisteredFor(c)[k]],
                                 <<"push", FiredValue(c)>>) ]_vars

\* C6 witness: a status event has called the two status handlers, the one
\* registered by dashboard.js first.
C6_Witness ==
    /\ lastInvoked = <<"dash_status", "common_status">>
    /\ delivered["dash_status"] = <<<<"push", "A">>>>
    /\ delivered["common_status"] = <<<<"push", "A">>>>

\* C7 (as claimed): a well-formed event on any of the eight push channels
\* reaches every handler registered for the channel.
C7_EightChannelsReachHandlers ==
    [][ \A c \in PushChannels :
          FiredWellFormed(c) =>
              \A k \in 1..Len(RegisteredFor(c)) :
                  Len(delivered'[RegisteredFor(c)[k]])
                      = Len(delivered[RegisteredFor(c)[k]]) + 1 ]_vars

HeldOf(v, lp, c) == IF c = "positions" THEN lp ELSE v[c]

Held(c) == HeldOf(view, lastPositions, c)

InitialValue(c) == IF c = "positions" THEN "EMPTY" ELSE "initial"

Last(q) == q[Len(q)]

\* The last payload of a sequence that is not null, or the initial value.
RECURSIVE LastTruthy(_, _)
LastTruthy(q, init) ==
    IF q = <<>> THEN init
    ELSE IF Truthy(Last(q)) THEN Last(q)
         ELSE LastTruthy(SubSeq(q, 1, Len(q) - 1), init)

RECURSIVE SnapshotsAfter(_)
SnapshotsAfter(arrivals) ==
    IF arrivals = <<>> THEN <<>>
    ELSE LET a == Last(arrivals)
         IN CASE a[2] = "snapshots" -> <<"snapshots", a[1]>>
              [] a[2] = "empty"     -> <<>>
              [] OTHER -> SnapshotsAfter(SubSeq(arrivals, 1, Len(arrivals) - 1))

\* C10: requests for the same resource complete independently; what is
\* stored is the result of the response that arrived last, whichever request
\* it answers; and an initial positions result that lands after a push event
\* replaces what the event stored.
C10_LastArrivalWins ==
    /\ [](lastSnapshots = SnapshotsAfter(eqArrivals))
    /\ [][ (pending["positions"] = "inflight" /\ pending'["positions"] = "done"
              /\ appliedTo'["positions"] # appliedTo["positions"]
              /\ Truthy(Last(appliedTo'["positions"])))
             => lastPositions' = Last(appliedTo'["positions"]) ]_vars

\* C10 witness: two range requests were in flight together, the answer to
\* the second arrived first, and the page holds the answer to the first.
C10_Witness ==
    /\ eqIssued = 2
    /\ Len(eqArrivals) = 3
    /\ eqArrivals[2] = <<2, "snapshots">>
    /\ eqArrivals[3] = <<1, "snapshots">>
    /\ lastSnapshots = <<"snapshots", 1>>

\* C11: a response that answers a request older than the latest request
\* issued for the resource is discarded: when it arrives, what is stored for
\* the resource stays as it was.
C11_StaleResponseDiscarded ==
    [][ (Len(eqArrivals') = Len(eqArrivals) + 1
           /\ Last(eqArrivals')[1] < eqIssued)
          => lastSnapshots' = lastSnapshots ]_vars

\* A request that fails: network error, non-2xx status, or a body that does
\* not parse.
Failed(resp) == resp \in {"neterr", "http500"} \/ ~BodyParses(resp)

PctLeq(p, q) == p.num * q.den <= q.num * p.den

PctIs(p, n) == p.num = n * p.den

PctInRange(p) == PctLeq(Pct(0, 1), p) /\ PctLeq(p, Pct(100, 1))

\* The loss gauge shown is in [0, 100], is 100 when the magnitude of the
\* loss reaches the limit, is at least the gauge of every loss of smaller
\* magnitude under the same limit, and is 20, 40, 80 for losses of -1, -2,
\* -4 under a limit of 5.
LossGaugeRight(data) ==
    /\ PctInRange(riskGauges.loss)
    /\ Abs(data.daily_loss_pct) >= data.daily_loss_limit_pct
          => PctIs(riskGauges.loss, 100)
    /\ \A v \in -MaxLoss..MaxLoss :
          Abs(v) <= Abs(data.daily_loss_pct)
            => PctLeq(LossPct([data EXCEPT !.daily_loss_pct = v]), riskGauges.loss)
    /\ data.daily_loss_limit_pct = 5 =>
          /\ data.daily_loss_pct = -1 => PctIs(riskGauges.loss, 20)
          /\ data.daily_loss_pct = -2 => PctIs(riskGauges.loss, 40)
          /\ data.daily_loss_pct = -4 => PctIs(riskGauges.loss, 80)

\* The same three properties for the trade-count gauge.
TradesGaugeRight(data) ==
    /\ PctInRange(riskGauges.trades)
    /\ Abs(data.daily_trades) >= data.daily_max_trades
          => PctIs(riskGauges.trades, 100)
    /\ \A v \in -1..MaxCount :
          Abs(v) <= Abs(data.daily_trades)
            => PctLeq(TradesPct([data EXCEPT !.daily_trades = v]), riskGauges.trades)

\* The same three properties for the position-count gauge.
PositionsGaugeRight(data) ==
    /\ PctInRange(riskGauges.positions)
    /\ Abs(data.position_count) >= data.max_positions
          => PctIs(riskGauges.positions, 100)
    /\ \A v \in -1..MaxCount :
          Abs(v) <= Abs(data.position_count)
            => PctLeq(PosPct([data EXCEPT !.position_count = v]), riskGauges.positions)

Flat(series) == \A i, j \in DOMAIN series : series[i] = series[j]

\* C17: for every non-empty flat equity series, whatever its value, the
\* Y-axis bounds computed for it satisfy yMax > yMin.
C17_FlatSeriesHasHeight ==
    (chartSeries # <<>> /\ Flat(chartSeries)) => yRange.yMax > yRange.yMin

\* C18: for the equity series [100, 100, 100], yMax - yMin is exactly
\* 100 * 0.02 = 2 (200 hundredths).
C18_FlatHundredSpansTwo ==
    chartSeries = <<100, 100, 100>> => yRange.yMax - yRange.yMin = 200

\* C18 as amended: for the equity series [100, 100, 100] the padding
\* 100 * 0.02 = 2 is applied on each side: yMin = 98, yMax = 102 and
\* yMax - yMin is exactly 4.
C18_FlatHundredSpansFour ==
    chartSeries = <<100, 100, 100>> =>
        /\ yRange.yMin = 9800
        /\ yRange.yMax = 10200
        /\ yRange.yMax - yRange.yMin = 400

\* C18 witness: the chart of [100, 100, 100] has been drawn with its upper
\* bound at 102.
C18_Witness ==
    chartSeries = <<100, 100, 100>> /\ yRange.yMax = 10200

ExpectedLevel(checks) ==
    IF \E i \in DOMAIN checks : ~checks[i].ok /\ checks[i].level = "critical"
    THEN "CRITICAL"
    ELSE IF \E i \in DOMAIN checks : ~checks[i].ok /\ checks[i].level = "warning"
         THEN "WARNING"
         ELSE "OK"

\* The payload that described the checks last.
LastPayload == IF hcFailedOnly THEN FailingOnly(hcChecks) ELSE hcChecks

\* C20: once the badge has been written, it is CRITICAL if any failing
\* check of the set last described is critical, otherwise WARNING if any
\* failing check is a warning, otherwise OK, whether the set came as the
\* failing-only push payload or as the full pull payload.
C20_BadgeAggregates ==
    healthBadge.level # "markup" => healthBadge.level = ExpectedLevel(hcChecks)

\* C20 as amended: a payload that is not empty shows the card and sets the
\* badge to CRITICAL, WARNING or OK by the failing checks, with their
\* number, so for a set with a failing check the push payload and the pull
\* payload give the same badge; an empty payload (the push payload of a set
\* with no failing check, or an empty pull result) hides the card and
\* leaves the badge as it was.
C20_BadgeOfNonEmptyPayload ==
    /\ [](LastPayload # <<>> =>
            /\ hcCard = "block"
            /\ healthBadge.level = ExpectedLevel(hcChecks)
            /\ healthBadge.level # "OK"
                  => healthBadge.count = Len(FailingOnly(hcChecks)))
    /\ [][ (IF hcFailedOnly' THEN FailingOnly(hcChecks') ELSE hcChecks') = <<>>
             => hcCard' = "none" /\ healthBadge' = healthBadge ]_vars

\* C20 witness: a pull of three checks, one of them a failing warning and
\* one a critical check that passed, shows WARNING with a count of one.
C20_Witness ==
    /\ ~hcFailedOnly
    /\ Len(hcChecks) = 3
    /\ hcChecks[1] = [ok |-> TRUE, level |-> "critical"]
    /\ hcChecks[2] = [ok |-> FALSE, level |-> "warning"]
    /\ hcChecks[3] = [ok |-> TRUE, level |-> "warning"]
    /\ healthBadge = [level |-> "WARNING", count |-> 1]
    /\ hcCard = "block"

\* C21: a push update with no failing check does not set the badge to OK
\* (a badge that is OK after it was OK before it), and the badge is never
\* OK before a full pull result has been rendered.
C21_EmptyPushDoesNotSetOk ==
    /\ [][ (hcFailedOnly' /\ FailingOnly(hcChecks') = <<>>
              /\ healthBadge'.level = "OK")
             => healthBadge.level = "OK" ]_vars
    /\ [](healthBadge.level = "OK" => hcPulled)

\* C21 witness: after a push update reporting a critical failure, a push
\* update of checks that all pass has come, no pull result has been
\* rendered, and the badge still says CRITICAL behind the hidden card.
C21_Witness ==
    /\ hcFailedOnly /\ ~hcPulled
    /\ hcChecks # <<>> /\ FailingOnly(hcChecks) = <<>>
    /\ healthBadge.level = "CRITICAL"
    /\ hcCard = "none"

\* Where a position of the table stands in the stored list.
StoredIndex(p) == CHOOSE i \in DOMAIN posList : posList[i] = p

\* C22: the table starts sorted by unrealized_pnl_pct, descending; its rows
\* are a permutation of the stored list, ordered by the chosen key in the
\* chosen direction, with positions of equal key in their stored order;
\* and sorting leaves the stored list as it was.
C22_StableSortedView ==
    /\ positionSortKey = "unrealized_pnl_pct" /\ positionSortDir = "desc"
    /\ [](/\ Len(posRows) = Len(posList)
          /\ SeqToSet(posRows) = SeqToSet(posList)
          /\ \A i, j \in DOMAIN posRows :
                i < j =>
                  /\ positionSortDir = "asc"
                        => ~KeyLess(posRows[j], posRows[i], positionSortKey)
                  /\ positionSortDir = "desc"
                        => ~KeyLess(posRows[i], posRows[j], positionSortKey)
                  /\ (/\ ~KeyLess(posRows[i], posRows[j], positionSortKey)
                      /\ ~KeyLess(posRows[j], posRows[i], positionSortKey))
                        => StoredIndex(posRows[i]) < StoredIndex(posRows[j]))
    /\ [][ (positionSortKey' # positionSortKey \/ positionSortDir' # positionSortDir)
             => posList' = posList ]_vars

\* C22 witness: three positions stored as beta, Alpha, alpha are shown by
\* name ascending as Alpha, alpha, beta: the two names that differ in case
\* only keep their stored order, and the stored list is as it came.
C22_Witness ==
    /\ positionSortKey = "name" /\ positionSortDir = "asc"
    /\ Len(posList) = 3
    /\ posList[1].name = "beta" /\ posList[2].name = "Alpha" /\ posList[3].name = "alpha"
    /\ posRows = <<posList[2], posList[3], posList[1]>>

\* The requests that failed: everything but a 2xx answer with success true.
ApplyFailed(r) == r \in ApplyResponses \ {"ok_success"}

\* C23: a failed apply request leaves an error message behind, shown on
\* the page or logged, and a button that is not the button of a success.
C23_FailureSurfaced ==
    (applyLast.resp # "none" /\ ApplyFailed(applyLast.resp))
        => /\ applyLast.console \/ applyLast.shown # "none"
           /\ applyLast.button.label # "applied"

\* C29: a button has at most one request in flight and is disabled while
\* it has one; a disabled button becomes enabled only when a request of
\* its own settles as failed; a button that shows a success stays disabled.
C29_OneRequestPerButton ==
    /\ [](\A b \in DOMAIN applyButtons :
            /\ applyInflight[b] <= 1
            /\ applyInflight[b] = 1 => applyButtons[b].disabled)
    /\ [][ \A b \in DOMAIN applyButtons :
             /\ (applyButtons[b].disabled /\ ~applyButtons'[b].disabled)
                   => /\ applyInflight'[b] < applyInflight[b]
                      /\ applyLast'.btn = b /\ ApplyFailed(applyLast'.resp)
             /\ applyButtons[b].label = "applied"
                   => applyButtons'[b] = applyButtons[b] ]_vars

\* C29 witness: the first button's request was rejected and the button is
\* enabled again, while the button rendered after it shows a success and
\* is disabled with no request left.
C29_Witness ==
    /\ Len(applyButtons) = 2
    /\ applyButtons[1] = FreshButton /\ applyInflight[1] = 0
    /\ applyButtons[2] = [disabled |-> TRUE, label |-> "applied"]
    /\ applyInflight[2] = 0
    /\ applyLast.btn = 1 /\ applyLast.resp = "ok_rejected"

\* C28: while the date row is collapsed no position-detail row follows it,
\* whenever the requests started earlier complete; and never more than one
\* detail row follows it.
C28_CollapsedShowsNoDetail ==
    /\ detailBtn = "collapsed" => detailRows = <<>>
    /\ Len(detailRows) <= 1

\* C30: the loading indicator shows while a load is in flight, also when
\* loads overlap and one of them has finished, and is hidden when none is.
C30_IndicatorWhileLoading ==
    /\ tdInflight > 0 => tdLoading = "inline"
    /\ tdInflight = 0 => tdLoading = "none"

\* C24: of the EventSources the client has created at most one is not
\* closed, and it is the one the client holds.
C24_AtMostOneUnclosed ==
    /\ unclosed <= 1
    /\ unclosed = 1 <=> eventSource \in {"connecting", "open"}

\* C24 witness: page scripts have called connect() again, twice, a
\* reconnect timer is pending, and one EventSource is connecting.
C24_Witness ==
    /\ pageConnects >= 2 /\ timers >= 1
    /\ eventSource = "connecting" /\ unclosed = 1

\* C25: at most one reconnect timer is pending.
C25_AtMostOneTimer == timers <= 1

\* C26: connected is true, and the status indicator says connected, only
\* while the EventSource made last has opened and has not failed or been
\* closed since.
C26_ConnectedMeansOpen ==
    (connected \/ sbStatus = "connected") => eventSource = "open"

\* A handler has thrown on an event delivered earlier.
SomeHandlerThrew ==
    \E i \in Registered :
        \E n \in DOMAIN delivered[Registrations[i].handler] :
            HandlerThrows(Registrations[i].handler,
                          delivered[Registrations[i].handler][n][2])

====
